---- MODULE Spec2Model ----
(***************************************************************************)
(* Model of tokio-quic's connection driver (src/src/lib.rs): the engine    *)
(* adapter Inner (poll_send, poll_recv, poll_complete), the handshake      *)
(* future Connecting, the background task Driver and the handles that      *)
(* share the Anchor.  The QUIC engine (quiche::Connection) and the         *)
(* transport (LossyIo) are external: every result they can hand back is    *)
(* drawn nondeterministically.                                             *)
(***************************************************************************)
EXTENDS Integers, Sequences, FiniteSets, TLC

\* ------------------------------------------------------------------ bounds
\* send_buf.len(): the staging buffer is allocated outside lib.rs.
BufLen == 3
\* QuicStream values handed out over the life of one connection.
MaxStreams == 1

\* ------------------------------------------------------------------ state
VARIABLES
    send_pos,      \* Inner.send_pos
    send_end,      \* Inner.send_end
    send_flush,    \* Inner.send_flush
    timer,         \* Inner.timer: "none" | "armed" | "fired"
    connect,       \* Inner.connect, the engine: [est, closing, closed]
    inner,         \* Connecting.inner: "Handshaking" | "End"
    anchor_refs,   \* strong count of the Arc<Anchor>
    anchor,        \* Anchor.0: "absent" (not built yet) | "Some" | "None"
    close_recv,    \* Driver.close_recv: "absent" | "empty" | "sent"
    connection,    \* the Connection handle: "absent" | "alive" | "dropped"
    incoming,      \* the Incoming handle:   "absent" | "alive" | "dropped"
    streams,       \* number of live QuicStream values
    driver,        \* the Driver future: "absent" | "created" | "running" | "done" | "failed"
    pc,            \* position of the poll call in progress ("idle": none)
    ctx,           \* which call of poll_send is running: "forced" | "complete"
    result,        \* what the last Connecting::poll returned
    obs,           \* what the latest pump step did (transport op, engine error, return)
    send_buf,      \* Inner.send_buf, per cell: "zero" (never filled) | "staged" (engine
                   \* output not yet accepted by the transport) | "written" (accepted)
    readable,      \* what connect.readable() yields: ids of streams with data to read
    stream_map,    \* Driver.stream_map: the ids that have a channel pair
    stream_shutdown, \* ids on which connect.stream_shutdown was called
    stream_rx,     \* per stream id, the Messages forwarded to the QuicStream's channel
    hist           \* history of the calls, read only by the properties

bufVars    == <<send_pos, send_end, send_flush>>
handleVars == <<anchor_refs, anchor, close_recv, connection, incoming, streams>>
tableVars  == <<stream_map, stream_shutdown, stream_rx>>
dataVars   == <<send_buf, readable, stream_map, stream_shutdown, stream_rx>>
vars == <<send_pos, send_end, send_flush, timer, connect, inner, anchor_refs, anchor,
          close_recv, connection, incoming, streams, driver, pc, ctx, result, obs,
          send_buf, readable, stream_map, stream_shutdown, stream_rx, hist>>

\* The stream ids the peer may open.
StreamIds == 1..MaxStreams

\* quiche::Error values other than Done and BufferTooShort.
EngineErrors == {"InvalidPacket", "TlsFail"}

\* quiche::Error::to_wire: the error's wire code (one code per error).
to_wire(err) == <<"wire", err>>

NoObs == [io |-> "none", path |-> "none", lo |-> 0, hi |-> 0, pos |-> 0, end |-> 0,
          engErr |-> "none", close |-> "none", ret |-> "none", cause |-> "none"]

Min(a, b) == IF a < b THEN a ELSE b

\* ------------------------------------------------------------------ engine
\* What a call of connect.recv or connect.on_timeout may do to the engine's
\* flags: nothing, finish the handshake, start closing, or become closed.
\* The flags never fall back.
EngineAdvance(c) ==
    {c, [c EXCEPT !.est = TRUE], [c EXCEPT !.closing = TRUE], [c EXCEPT !.closed = TRUE]}

\* connect.close(false, code, b"fail"): fails (Done) when the engine is already
\* closing or closed, otherwise starts the close.
CloseFails(c) == c.closing \/ c.closed

\* The engine after connect.close.
EngineClose(c) == IF CloseFails(c) THEN c ELSE [c EXCEPT !.closing = TRUE]


\* ------------------------------------------------------------------ transport
\* io.poll_write on a slice of len bytes: Ready(n) with 0 <= n <= len, would-block,
\* or another error.
WriteOutcomes(len) ==
    {[kind |-> "ok", n |-> k] : k \in 0..len}
        \cup {[kind |-> "block", n |-> 0], [kind |-> "err", n |-> 0]}

\* connect.send on a slice of len bytes: Ok(n) with 1 <= n <= len, Done,
\* BufferTooShort, or another error.
SendOutcomes(len) ==
    {[kind |-> "ok", n |-> k, err |-> "none"] : k \in 1..len}
        \cup {[kind |-> "done", n |-> 0, err |-> "none"],
              [kind |-> "short", n |-> 0, err |-> "none"]}
        \cup {[kind |-> "err", n |-> 0, err |-> e] : e \in EngineErrors}

\* io.poll_read followed by connect.recv on what was read.
RecvOutcomes ==
    {[io |-> "block", kind |-> "none", err |-> "none"],
     [io |-> "err", kind |-> "none", err |-> "none"],
     [io |-> "ok", kind |-> "ok", err |-> "none"],
     [io |-> "ok", kind |-> "done", err |-> "none"]}
        \cup {[io |-> "ok", kind |-> "err", err |-> e] : e \in EngineErrors}

\* The readable streams after connect.recv took a datagram and left the engine
\* as c: on an established connection the datagram may carry data of a stream.
ReadableAfterRecv(c, rd) ==
    IF c.est THEN {rd} \cup {rd \cup {id} : id \in StreamIds} ELSE {rd}

\* send_buf after the engine filled n cells from end on.
Staged(buf, end, n) ==
    [i \in DOMAIN buf |-> IF end <= i /\ i < end + n THEN "staged" ELSE buf[i]]

\* send_buf after the transport accepted n cells from pos on.
Written(buf, pos, n) ==
    [i \in DOMAIN buf |-> IF pos <= i /\ i < pos + n THEN "written" ELSE buf[i]]

\* What the transport has been given, after it accepted n cells of buf from pos
\* on: a cell it had accepted before ("twice"), a cell the engine never filled
\* ("unproduced"), or only fresh engine output.
WireAfter(w, buf, pos, n) ==
    LET cells == {i \in DOMAIN buf : pos <= i /\ i < pos + n} IN
    IF w # "ok" THEN w
    ELSE IF \E i \in cells : buf[i] = "written" THEN "twice"
    ELSE IF \E i \in cells : buf[i] = "zero" THEN "unproduced"
    ELSE "ok"

\* ------------------------------------------------------------------ control flow
\* try_ready!(e): returns from the enclosing function unless e is Ok(Ready).
TryReady(r) == r # "ready"

\* Question with the error swallowed (let _ = e;).
QuestionSwallowed(r) == FALSE

\* e?: returns from the enclosing function when e is Err.
Question(r) == r = "err"

\* Top of poll_send's loop: the flush branch is taken when send_flush is set.
SendEntry(flush) == IF flush THEN "ps_drain" ELSE "ps_engine"

\* ConnectingFirstStep without the forced poll_send.
ConnectingFirstStepNoSend(flush) == "c_while"

\* Where Connecting::poll starts while Handshaking: try_ready!(inner.poll_send()).
ConnectingFirstStep(flush) == SendEntry(flush)

\* The end of the slice the flush branch hands to poll_write: send_buf[send_pos..].
DrainSliceEnd(end) == BufLen

\* send_flush after a successful connect.send.
FlushAfterSend(end) == end = BufLen - 1

Goto(p) == [pc |-> p, result |-> result, driver |-> driver]

\* The poll call in progress returns early with the pump's result r
\* ("not_ready" or "err"): Connecting::poll hands it to its caller, Driver::poll
\* maps the error to ().
PollReturns(r) ==
    IF inner = "Handshaking"
    THEN [pc |-> "idle", result |-> IF r = "err" THEN "io_err" ELSE "not_ready",
          driver |-> driver]
    ELSE [pc |-> "idle", result |-> result,
          driver |-> IF r = "err" THEN "failed" ELSE driver]

\* poll_send has returned r: the forced call in Connecting::poll is under
\* try_ready!, the call in poll_complete under `?`.
AfterPollSend(r) ==
    IF ctx = "forced"
    THEN IF TryReady(r) THEN PollReturns(r) ELSE Goto("c_while")
    ELSE IF Question(r) THEN PollReturns(r) ELSE Goto("pc_closed")

\* poll_recv has returned r inside poll_complete: `?`, then poll_send.
AfterPollRecv(r) ==
    IF Question(r) THEN PollReturns(r) ELSE Goto(SendEntry(send_flush))

\* poll_complete's result.
PollCompleteResult(c) == IF c.closed THEN "ready" ELSE "not_ready"

\* poll_complete has returned r (never an error here): Connecting::poll has it
\* under try_ready!, Driver::poll under map_err(drop)? and drops the value.
AfterPollComplete(r) ==
    IF inner = "Handshaking"
    THEN IF TryReady(r) THEN PollReturns(r) ELSE Goto("c_while")
    ELSE IF Question(r) THEN PollReturns(r) ELSE Goto("d_readable")

\* HandshakeDecision with the closed test ahead of the established test.
HandshakeDecisionClosedFirst(c) ==
    IF c.closed THEN "eof" ELSE IF c.est THEN "resolve" ELSE "complete"

\* One pass of Connecting::poll's while loop.
HandshakeDecision(c) ==
    IF c.est THEN "resolve" ELSE IF c.closed THEN "eof" ELSE "complete"

\* ConnectingNextState with the state taken at the top of poll and put back
\* only on NotReady.
ConnectingNextStateTaken(outcome) ==
    IF outcome \in {"resolved", "eof", "io_err"} THEN "End" ELSE "Handshaking"

\* Connecting.inner after a poll call: the early returns leave it alone, the
\* fall-through replaces it by End.
ConnectingNextState(outcome) == IF outcome = "resolved" THEN "End" ELSE "Handshaking"

\* close_recv.poll(): ready once the Anchor has sent.
CloseRecvPoll(chan) == chan = "sent"

\* DriverOnSignal that notes the signal and goes round the loop again.
DriverOnSignalLoops(ready) == "loop"

\* Driver::poll after polling close_recv.
DriverOnSignal(ready) == IF ready THEN "return" ELSE "loop"

\* Connecting.inner after a step that leaves the control state o.
InnerAfter(o) ==
    IF inner = "Handshaking" /\ o.pc = "idle" THEN ConnectingNextState(o.result) ELSE inner

\* ------------------------------------------------------------------ initial state
Init ==
    /\ send_pos = 0
    /\ send_end = 0
    /\ send_flush = FALSE
    /\ timer = "none"
    /\ send_buf = [i \in 0..(BufLen - 1) |-> "zero"]
    /\ readable = {}
    /\ stream_map = {}
    /\ stream_shutdown = {}
    /\ stream_rx = [id \in StreamIds |-> <<>>]
    /\ connect = [est |-> FALSE, closing |-> FALSE, closed |-> FALSE]
    /\ inner = "Handshaking"
    /\ anchor_refs = 0
    /\ anchor = "absent"
    /\ close_recv = "absent"
    /\ connection = "absent"
    /\ incoming = "absent"
    /\ streams = 0
    /\ driver = "absent"
    /\ pc = "idle"
    /\ ctx = "forced"
    /\ result = "none"
    /\ obs = NoObs
    /\ hist = [startHs |-> "none", startBad |-> FALSE, forcedRet |-> "none",
               estInComplete |-> FALSE, resolved |-> 0, fires |-> 0,
               itersAfterFire |-> 0, closeSeen |-> FALSE, made |-> 0,
               cRecv |-> "none", cSend |-> "none", cRet |-> "none",
               cRecvBlock |-> FALSE, cSendBlock |-> FALSE, cErr |-> "none",
               asked |-> FALSE, fed |-> FALSE, expiry |-> "none",
               wire |-> "ok", passIds |-> {}, passTracked |-> {}, lateIds |-> {}]

\* hist at the start of a poll_complete cycle.
HistNewCycle(h) ==
    [h EXCEPT !.cRecv = "none", !.cSend = "none", !.cRet = "none",
              !.cRecvBlock = FALSE, !.cSendBlock = FALSE, !.cErr = "none"]

\* hist after poll_send returned r, o being the record of its last step.
HistAfterSend(r, o) ==
    LET asked == hist.asked \/ o.path = "send" \/ o.engErr # "none" IN
    IF ctx = "forced" THEN [hist EXCEPT !.forcedRet = r, !.asked = asked]
    ELSE [hist EXCEPT !.cSend = r, !.cSendBlock = (o.io = "block"),
                      !.cRet = IF Question(r) THEN "err" ELSE @,
                      !.cErr = IF Question(r) THEN o.cause ELSE @,
                      !.asked = asked]

\* hist after poll_recv returned r inside poll_complete, o being the record of
\* its last step.
HistAfterRecv(r, o) ==
    [hist EXCEPT !.cRecv = r, !.cRecvBlock = (o.io = "block"),
                 !.cRet = IF Question(r) THEN "err" ELSE @,
                 !.cErr = IF Question(r) THEN o.cause ELSE @,
                 !.fed = @ \/ o.io = "ok"]

\* hist after an engine call inside poll_complete took the engine from connect to c.
HistAfterEngine(c) ==
    IF inner = "Handshaking" /\ c.est /\ ~connect.est
    THEN [hist EXCEPT !.estInComplete = TRUE] ELSE hist

\* ------------------------------------------------------------------ Connecting::poll
\* Connecting::poll is called while Handshaking: it enters the forced poll_send.
ConnectingPoll ==
    /\ pc = "idle"
    /\ inner = "Handshaking"
    /\ pc' = ConnectingFirstStep(send_flush)
    /\ ctx' = "forced"
    /\ result' = "pending"
    /\ obs' = NoObs
    /\ hist' = [hist EXCEPT !.startHs = inner,
                            !.startBad = connect.closed /\ ~connect.est,
                            !.forcedRet = "none",
                            !.estInComplete = FALSE]
    /\ UNCHANGED <<dataVars, bufVars, timer, connect, inner, handleVars, driver>>

\* Connecting::poll is called after End: the if-let is skipped, mem::replace
\* yields End, and the match arm panics.
ConnectingPollEnded ==
    /\ inner = "End"
    /\ result' = "panic"
    /\ hist' = [hist EXCEPT !.startHs = inner]
    /\ UNCHANGED <<dataVars, bufVars, timer, connect, inner, handleVars, driver, pc, ctx, obs>>

\* One pass of the while loop: resolve with the handles, fail with
\* UnexpectedEof, or start a poll_complete cycle.
HandshakeLoop ==
    /\ pc = "c_while"
    /\ LET d == HandshakeDecision(connect) IN
       \/ /\ d = "resolve"
          /\ inner' = ConnectingNextState("resolved")
          /\ result' = "resolved"
          /\ pc' = "idle"
          /\ anchor' = "Some"
          /\ anchor_refs' = 2
          /\ close_recv' = "empty"
          /\ connection' = "alive"
          /\ incoming' = "alive"
          /\ driver' = "created"
          /\ hist' = [hist EXCEPT !.resolved = Min(2, hist.resolved + 1)]
          /\ UNCHANGED streams
       \/ /\ d = "eof"
          /\ inner' = ConnectingNextState("eof")
          /\ result' = "eof"
          /\ pc' = "idle"
          /\ UNCHANGED <<handleVars, driver, hist>>
       \/ /\ d = "complete"
          /\ pc' = "pc_timer"
          /\ UNCHANGED <<inner, result, handleVars, driver, hist>>
    /\ UNCHANGED <<dataVars, bufVars, timer, connect, ctx, obs>>

\* ------------------------------------------------------------------ Inner::poll_send
\* The record of a transport write of send_buf[lo..hi] with outcome io.
WriteObs(path, lo, hi, io, ret) ==
    [NoObs EXCEPT !.io = io, !.path = path, !.lo = lo, !.hi = hi,
                  !.pos = send_pos, !.end = send_end, !.ret = ret,
                  !.cause = IF ret = "err" THEN "transport" ELSE "none"]

\* The record of an engine error err answered by connect.close.
CloseObs(err, ret) ==
    [NoObs EXCEPT !.engErr = err, !.close = <<FALSE, to_wire(err), "fail">>,
                  !.ret = ret, !.cause = IF ret = "err" THEN "engine" ELSE "none"]

\* What the pump returns after an engine error: close(...).map_err(to_io_error)?
\* and then NotReady.
EngineErrorReturn(c) == IF CloseFails(c) THEN "err" ELSE "not_ready"

\* poll_send returns r, having set obs to o.
PollSendReturn(r, o) ==
    LET k == AfterPollSend(r) IN
    /\ pc' = k.pc
    /\ result' = k.result
    /\ driver' = k.driver
    /\ inner' = InnerAfter(k)
    /\ obs' = o
    /\ hist' = HistAfterSend(r, o)

\* The flush branch: while send_pos != send_end, write send_buf[send_pos..];
\* then reset the cursors and clear send_flush.
PollSendDrain ==
    /\ pc = "ps_drain"
    /\ \/ /\ send_pos = send_end
          /\ send_pos' = 0
          /\ send_end' = 0
          /\ send_flush' = FALSE
          /\ pc' = "ps_engine"
          /\ obs' = NoObs
          /\ UNCHANGED <<send_buf, result, driver, inner, hist>>
       \/ /\ send_pos # send_end
          /\ \E w \in WriteOutcomes(DrainSliceEnd(send_end) - send_pos) :
                LET hi == DrainSliceEnd(send_end) IN
                \/ /\ w.kind = "ok"
                   /\ send_pos' = send_pos + w.n
                   /\ send_buf' = Written(send_buf, send_pos, w.n)
                   /\ hist' = [hist EXCEPT !.wire = WireAfter(@, send_buf, send_pos, w.n)]
                   /\ obs' = WriteObs("drain", send_pos, hi, "ok", "none")
                   /\ UNCHANGED <<send_end, send_flush, pc, result, driver, inner>>
                \/ /\ w.kind = "block"
                   /\ PollSendReturn("not_ready",
                                     WriteObs("drain", send_pos, hi, "block", "not_ready"))
                   /\ UNCHANGED <<bufVars, send_buf>>
                \/ /\ w.kind = "err"
                   /\ PollSendReturn("err", WriteObs("drain", send_pos, hi, "err", "err"))
                   /\ UNCHANGED <<bufVars, send_buf>>
    /\ UNCHANGED <<tableVars, readable, timer, connect, handleVars, ctx>>

\* connect.send(&mut send_buf[send_end..]) and the match on its result.
PollSendEngine ==
    /\ pc = "ps_engine"
    /\ \E s \in SendOutcomes(BufLen - send_end) :
          \/ /\ s.kind = "ok"
             /\ send_end' = send_end + s.n
             /\ send_buf' = Staged(send_buf, send_end, s.n)
             /\ send_flush' = FlushAfterSend(send_end + s.n)
             /\ pc' = "ps_write"
             /\ obs' = NoObs
             /\ hist' = [hist EXCEPT !.asked = TRUE]
             /\ UNCHANGED <<send_pos, connect, result, driver, inner>>
          \/ /\ s.kind = "done"
             /\ PollSendReturn("ready", [NoObs EXCEPT !.path = "send", !.ret = "ready"])
             /\ UNCHANGED <<bufVars, send_buf, connect>>
          \/ /\ s.kind = "short"
             /\ send_flush' = TRUE
             /\ pc' = SendEntry(TRUE)
             /\ obs' = NoObs
             /\ hist' = [hist EXCEPT !.asked = TRUE]
             /\ UNCHANGED <<send_pos, send_end, send_buf, connect, result, driver, inner>>
          \/ /\ s.kind = "err"
             /\ connect' = EngineClose(connect)
             /\ PollSendReturn(EngineErrorReturn(connect),
                               CloseObs(s.err, EngineErrorReturn(connect)))
             /\ UNCHANGED <<bufVars, send_buf>>
    /\ UNCHANGED <<tableVars, readable, timer, handleVars, ctx>>

\* The write after producing: poll_write(&mut send_buf[send_pos..send_end]).
PollSendWrite ==
    /\ pc = "ps_write"
    /\ \E w \in WriteOutcomes(send_end - send_pos) :
          \/ /\ w.kind = "ok"
             /\ send_pos' = send_pos + w.n
             /\ send_buf' = Written(send_buf, send_pos, w.n)
             /\ hist' = [hist EXCEPT !.wire = WireAfter(@, send_buf, send_pos, w.n)]
             /\ pc' = SendEntry(send_flush)
             /\ obs' = WriteObs("write", send_pos, send_end, "ok", "none")
             /\ UNCHANGED <<send_end, send_flush, result, driver, inner>>
          \/ /\ w.kind = "block"
             /\ PollSendReturn("not_ready",
                               WriteObs("write", send_pos, send_end, "block", "not_ready"))
             /\ UNCHANGED <<bufVars, send_buf>>
          \/ /\ w.kind = "err"
             /\ PollSendReturn("err", WriteObs("write", send_pos, send_end, "err", "err"))
             /\ UNCHANGED <<bufVars, send_buf>>
    /\ UNCHANGED <<tableVars, readable, timer, connect, handleVars, ctx>>

\* ------------------------------------------------------------------ Inner::poll_recv
\* One pass of poll_recv's loop: poll_read, then connect.recv on what was read.
PollRecv ==
    /\ pc = "pr_read"
    /\ \E r \in RecvOutcomes :
          LET ret == CASE r.io = "block" -> "not_ready"
                       [] r.io = "err" -> "err"
                       [] r.kind = "done" -> "ready"
                       [] r.kind = "err" -> EngineErrorReturn(connect)
                       [] OTHER -> "none"
              k == AfterPollRecv(ret)
              o == IF r.kind = "err"
                   THEN [CloseObs(r.err, ret) EXCEPT !.io = "ok", !.path = "read"]
                   ELSE [NoObs EXCEPT !.io = r.io, !.path = "read", !.ret = ret,
                                      !.cause = IF ret = "err" THEN "transport" ELSE "none"]
          IN
          \/ /\ ret = "none"
             /\ connect' \in EngineAdvance(connect)
             /\ readable' \in ReadableAfterRecv(connect', readable)
             /\ hist' = [HistAfterEngine(connect') EXCEPT
                             !.fed = TRUE,
                             !.lateIds = IF incoming = "dropped"
                                         THEN @ \cup (readable' \ readable) ELSE @]
             /\ obs' = o
             /\ UNCHANGED <<pc, result, driver, inner>>
          \/ /\ ret # "none"
             /\ connect' = IF r.kind = "err" THEN EngineClose(connect)
                           ELSE connect
             /\ pc' = k.pc
             /\ result' = k.result
             /\ driver' = k.driver
             /\ inner' = InnerAfter(k)
             /\ obs' = o
             /\ hist' = HistAfterRecv(ret, o)
             /\ UNCHANGED readable
    /\ UNCHANGED <<tableVars, send_buf, bufVars, timer, handleVars, ctx>>

\* ------------------------------------------------------------------ Inner::poll_complete
\* The timer part of poll_complete: on_timeout when the timer has fired, then
\* the timer is re-armed or dropped as connect.timeout() says.  For the Driver
\* this is where a loop iteration starts.
PollCompleteTimer ==
    /\ pc = "pc_timer"
    /\ connect' \in (IF timer = "fired" THEN EngineAdvance(connect) ELSE {connect})
    /\ \E timeout \in {"Some", "None"} :
          timer' = IF timeout = "Some" THEN "armed" ELSE "none"
    /\ pc' = "pr_read"
    /\ ctx' = "complete"
    /\ hist' = LET h == [HistNewCycle(HistAfterEngine(connect')) EXCEPT
                              !.expiry = IF timer = "fired" THEN "none" ELSE @] IN
               IF inner = "End" /\ close_recv = "sent"
               THEN [h EXCEPT !.itersAfterFire = Min(2, h.itersAfterFire + 1)]
               ELSE h
    /\ UNCHANGED <<dataVars, bufVars, inner, handleVars, driver, result, obs>>

\* The end of poll_complete: Ready when the engine is closed, else NotReady.
PollCompleteEnd ==
    /\ pc = "pc_closed"
    /\ LET k == AfterPollComplete(PollCompleteResult(connect)) IN
       /\ pc' = k.pc
       /\ result' = k.result
       /\ driver' = k.driver
       /\ inner' = InnerAfter(k)
    /\ hist' = [hist EXCEPT !.cRet = PollCompleteResult(connect)]
    /\ UNCHANGED <<dataVars, bufVars, timer, connect, handleVars, ctx, obs>>

\* ------------------------------------------------------------------ Driver::poll
\* The spawned Driver is polled: the loop starts with poll_complete.
DriverPoll ==
    /\ pc = "idle"
    /\ driver = "created"
    /\ driver' = "running"
    /\ pc' = "pc_timer"
    /\ obs' = NoObs
    /\ UNCHANGED <<dataVars, bufVars, timer, connect, inner, handleVars, ctx, result, hist>>

\* for stream_id in connect.readable(): an id missing from stream_map is left
\* alone (the body is empty).
DriverReadable ==
    /\ pc = "d_readable"
    /\ pc' = "d_close"
    /\ hist' = [hist EXCEPT !.passIds = readable, !.passTracked = stream_map]
    /\ UNCHANGED <<dataVars, bufVars, timer, connect, inner,
                   handleVars, driver, ctx, result, obs>>

\* close_recv.poll(): return Ready when the signal has arrived, else loop.
DriverCloseCheck ==
    /\ pc = "d_close"
    /\ LET ready == CloseRecvPoll(close_recv) IN
       /\ hist' = [hist EXCEPT !.closeSeen = ready, !.passIds = {}, !.passTracked = {}]
       /\ IF DriverOnSignal(ready) = "return"
          THEN driver' = "done" /\ pc' = "idle"
          ELSE driver' = driver /\ pc' = "pc_timer"
    /\ UNCHANGED <<dataVars, bufVars, timer, connect, inner, handleVars, ctx, result, obs>>

\* ------------------------------------------------------------------ handles
\* Anchor.0 after Anchor::drop: the sender is taken.
AnchorDropped(a) == IF a = "Some" THEN "None" ELSE a

\* One holder of the Arc<Anchor> goes away; the last one runs Anchor::drop,
\* which takes the sender and sends ().
ArcDrop ==
    /\ anchor_refs' = anchor_refs - 1
    /\ IF anchor_refs = 1
       THEN /\ anchor' = AnchorDropped(anchor)
            /\ close_recv' = IF anchor = "Some" THEN "sent" ELSE close_recv
            /\ hist' = IF anchor = "Some"
                       THEN [hist EXCEPT !.fires = Min(2, hist.fires + 1)] ELSE hist
       ELSE UNCHANGED <<anchor, close_recv, hist>>

DropConnection ==
    /\ connection = "alive"
    /\ connection' = "dropped"
    /\ ArcDrop
    /\ UNCHANGED <<dataVars, bufVars, timer, connect, inner, incoming, streams, driver, pc, ctx,
                   result, obs>>

DropIncoming ==
    /\ incoming = "alive"
    /\ incoming' = "dropped"
    /\ ArcDrop
    /\ UNCHANGED <<dataVars, bufVars, timer, connect, inner, connection, streams, driver, pc, ctx,
                   result, obs>>

\* The running Driver hands a QuicStream { id, tx, rx } to the application
\* through the accepted-stream channel.  The struct holds no Arc<Anchor>.
NewQuicStream ==
    /\ driver = "running"
    /\ incoming = "alive"
    /\ hist.made < MaxStreams
    /\ streams' = streams + 1
    /\ hist' = [hist EXCEPT !.made = hist.made + 1]
    /\ UNCHANGED <<dataVars, bufVars, timer, connect, inner, anchor_refs, anchor, close_recv,
                   connection, incoming, driver, pc, ctx, result, obs>>

\* QuicStream::drop: tx.try_send(Message::Close); the Anchor is not touched.
DropQuicStream ==
    /\ streams > 0
    /\ streams' = streams - 1
    /\ UNCHANGED <<dataVars, bufVars, timer, connect, inner, anchor_refs, anchor, close_recv,
                   connection, incoming, driver, pc, ctx, result, obs, hist>>

\* The Delay reaches its deadline.
TimerFire ==
    /\ timer = "armed"
    /\ timer' = "fired"
    /\ hist' = [hist EXCEPT !.expiry = IF pc = "idle" THEN "pending" ELSE @]
    /\ UNCHANGED <<dataVars, bufVars, connect, inner, handleVars, driver, pc, ctx, result, obs>>

\* ------------------------------------------------------------------ specification
Next ==
    \/ ConnectingPoll
    \/ ConnectingPollEnded
    \/ HandshakeLoop
    \/ PollSendDrain
    \/ PollSendEngine
    \/ PollSendWrite
    \/ PollRecv
    \/ PollCompleteTimer
    \/ PollCompleteEnd
    \/ DriverPoll
    \/ DriverReadable
    \/ DriverCloseCheck
    \/ DropConnection
    \/ DropIncoming
    \/ NewQuicStream
    \/ DropQuicStream
    \/ TimerFire

Spec == Init /\ [][Next]_vars

\* A poll_send call that has started keeps executing: its next step is taken.
PollSendStep == PollSendDrain \/ PollSendEngine \/ PollSendWrite

FairSpec == Spec /\ WF_vars(PollSendStep)

\* ------------------------------------------------------------------ properties
InPollSend == pc \in {"ps_drain", "ps_engine", "ps_write"}

\* C1: after every return of Inner::poll_send reached through engine send
\* results and partial, full or would-block transport writes,
\* send_pos <= send_end <= send_buf.len().
C1_CursorsOrdered ==
    (~InPollSend /\ obs.cause # "transport") =>
        (send_pos <= send_end /\ send_end <= BufLen)

\* C2: every slice poll_send hands to poll_write lies inside send_pos..send_end.
C2_WriteInsideStaged ==
    obs.path \in {"drain", "write"} => (obs.pos <= obs.lo /\ obs.hi <= obs.end)

\* C3: Connecting::poll never resolves while is_established is false, and the
\* call in which a poll_complete cycle establishes the engine does not return
\* not-ready.
C3_ResolvesWhenEstablished ==
    /\ result = "resolved" => connect.est
    /\ (pc = "idle" /\ hist.estInComplete) => result # "not_ready"

\* C4 (as claimed): UnexpectedEof is returned only with the engine closed and
\* not established, and every poll made in that engine state returns it.
C4_EofWheneverClosedFirst ==
    /\ result = "eof" => (connect.closed /\ ~connect.est)
    /\ (pc = "idle" /\ inner = "Handshaking" /\ hist.startBad) => result = "eof"

\* C4 (amended): UnexpectedEof is returned only with the engine closed and not
\* established and after the forced poll_send returned ready; a poll made in
\* that engine state whose forced poll_send returns ready returns the error.
C4_EofAfterForcedSend ==
    /\ result = "eof" => (connect.closed /\ ~connect.est /\ hist.forcedRet = "ready")
    /\ (pc = "idle" /\ inner = "Handshaking" /\ hist.startBad /\ hist.forcedRet = "ready")
          => result = "eof"

C4_Witness ==
    pc = "idle" /\ hist.startBad /\ hist.forcedRet = "ready" /\ result = "eof"

\* C5: a Driver iteration that ends with the engine closed ends Driver::poll.
C5_ExitsWhenClosed ==
    [][(pc = "d_close" /\ pc' # "d_close" /\ connect.closed) => driver' = "done"]_vars

C8_EngineErrorNotFatal ==
    obs.engErr # "none" =>
        (obs.close = <<FALSE, to_wire(obs.engErr), "fail">> /\ obs.ret = "not_ready")

\* C9: a transport failure ends the poll call in the same step with an error:
\* Connecting::poll fails, Driver::poll ends with an error, nothing is retried.
C9_TransportErrorFatal ==
    obs.io = "err" =>
        /\ pc = "idle"
        /\ obs.ret = "err"
        /\ inner = "Handshaking" => result = "io_err"
        /\ inner = "End" => driver = "failed"

C9_Witness == obs.io = "err" /\ driver = "failed" /\ obs.path = "drain"

\* C10: End is entered once, only by the poll call that resolves, and a poll
\* made after that panics.
C10_EndedOnce ==
    /\ hist.resolved <= 1
    /\ inner = "End" <=> hist.resolved = 1
    /\ result \in {"pending", "not_ready", "eof", "io_err"} => inner = "Handshaking"
    /\ hist.startHs = "End" => result = "panic"
    /\ result = "panic" => (inner = "End" /\ hist.startHs = "End")

C10_Witness == inner = "End" /\ result = "panic" /\ hist.resolved = 1

\* C15: after a successful connect.send, send_flush is set exactly when the
\* staging buffer is full (send_end = send_buf.len()).
C15_FlushIffFull ==
    pc = "ps_write" => (send_flush <=> send_end = BufLen)

\* C20: when poll_send returns ready, every staged byte has been accepted by
\* the transport (send_pos = send_end).
C20_ReadyMeansFlushed ==
    (obs.path = "send" /\ obs.ret = "ready") => send_pos = send_end

\* C16: a Driver iteration in which the transport would block on read and on
\* write, with the engine open and the close signal not sent, ends with
\* Driver::poll returning not-ready, not with another iteration.
C16_DriverSuspends ==
    [][(/\ pc = "d_close"
        /\ pc' # "d_close"
        /\ hist.cRecvBlock
        /\ hist.cSendBlock
        /\ ~connect.closed
        /\ close_recv # "sent") => (pc' = "idle" /\ driver' = "running")]_vars

\* C17: a poll_complete cycle without a transport error runs poll_recv, then
\* poll_send, and returns ready exactly when the engine is closed, else not-ready.
C17_CompleteCycle ==
    (hist.cRet # "none" /\ hist.cErr # "transport") =>
        /\ hist.cRecv # "none"
        /\ hist.cSend # "none"
        /\ hist.cRet = (IF connect.closed THEN "ready" ELSE "not_ready")

\* C18: connect.recv is not called before connect.send has been called at
\* least once, and in every Connecting::poll call the forced poll_send has
\* returned ready before a poll_complete receive pass runs.
C18_SendBeforeRecv ==
    /\ hist.fed => hist.asked
    /\ (inner = "Handshaking" /\ pc = "pr_read") => hist.forcedRet = "ready"

C18_Witness ==
    inner = "Handshaking" /\ pc = "pr_read" /\ hist.fed /\ hist.asked

\* C13: when the armed timer fires while the task is suspended, on_timeout is
\* called for that expiry before poll_send is called again: no poll_send runs
\* while the expiry is still unhandled.
C13_TimeoutBeforeSend == hist.expiry = "pending" => ~InPollSend

\* C14: the transport is given each byte the engine produced once, and no
\* other byte: every cell a write hands over holds engine output that has not
\* been accepted before.
C14_WireIsEngineOutput == hist.wire = "ok"

\* C11: at the end of a Driver pass every stream the engine reported readable
\* has its channel, a stream that had one when the pass began has its data on
\* the channel, and on every channel an End message is the last item.
C11_ChunksReachStream ==
    pc = "d_close" =>
        /\ \A id \in hist.passIds :
              /\ id \in stream_map
              /\ id \in hist.passTracked => stream_rx[id] # <<>>
        /\ \A id \in StreamIds : \A i \in 1..(Len(stream_rx[id]) - 1) :
              stream_rx[id][i] # "End"

\* C12: with the Incoming dropped before any stream arrived, every stream id
\* the engine reported readable in a Driver pass has been shut down on the
\* engine by the end of that pass.
C12_LateStreamsShutDown ==
    (pc = "d_close" /\ incoming = "dropped" /\ hist.made = 0
        /\ readable \subseteq hist.lateIds) => hist.passIds \subseteq stream_shutdown

\* A poll_send step that moves bytes: the engine fills cells or the transport
\* accepts some.
BytesMoved == send_end' > send_end \/ send_pos' > send_pos

\* C19: a poll_send call does not go on for ever: it returns, unless the engine
\* and the transport keep moving bytes without end.
C19_PollSendReturns == []<>(~InPollSend) \/ []<><<BytesMoved>>_vars

====
